---- MODULE Spec2Model ----
(***************************************************************************)
(* A model of renamer.py (joncarden/screenshout): the filename sanitizer,  *)
(* the unique path resolver, the rename pipeline, the directory watcher's  *)
(* event handler and the batch driver.                                     *)
(*                                                                         *)
(* Text (descriptions, file names) is a sequence of one-character strings, *)
(* so that the string operations of the code are computed character by     *)
(* character.  A directory is the set of the names of its entries.         *)
(***************************************************************************)
EXTENDS Integers, Sequences, FiniteSets, TLC

VARIABLES
    san,        \* the sanitizer call under study: its arguments, position, result
    uq,         \* the get_unique_path call under study: argument, counter, position, result
    fs,         \* the watched folder: the names of its files
    tags,       \* the files that carry a Finder comment written by set_finder_comment
    run,        \* "idle", "watch" (watch_folder is running) or "batch" (process_existing)
    processed,  \* ScreenshotHandler.processed
    pending,    \* the path handle_file is sleeping on during the delay, or NoPath
    todo,       \* process_existing: the images not yet iterated over
    dry_run,    \* process_existing: its dry_run argument
    calls,      \* per path, the rename_screenshot calls made by the current handler
    renamedTo,  \* every path a file was ever renamed to
    last,       \* the latest rename_screenshot call: arguments, intermediate values, result
    ncalls,     \* the number of rename_screenshot calls so far
    nenv,       \* the number of steps other programs have made on the folder
    log         \* the latest line printed by the handler / pipeline

vars == <<san, uq, fs, tags, run, processed, pending, todo, dry_run, calls,
          renamedTo, last, ncalls, nenv, log>>

-----------------------------------------------------------------------------
(* Characters and strings                                                  *)

UpperCase == <<"A","B","C","D","E","F","G","H","I","J","K","L","M",
               "N","O","P","Q","R","S","T","U","V","W","X","Y","Z">>
LowerCase == <<"a","b","c","d","e","f","g","h","i","j","k","l","m",
               "n","o","p","q","r","s","t","u","v","w","x","y","z">>
DigitChars == <<"0","1","2","3","4","5","6","7","8","9">>

Range(s) == { s[i] : i \in DOMAIN s }

IsLower(c) == c \in Range(LowerCase)
IsDigit(c) == c \in Range(DigitChars)
IsSpace(c) == c \in {" ", "\t", "\n", "\r"}
\* the grave accent (U+0060), which a TLA+ string cannot hold, is this atom
Backtick == "GRAVE"
IsQuote(c) == c \in {"\"", "'", Backtick}

\* str.lower() on one character
LowerChar(c) ==
    IF \E i \in DOMAIN UpperCase : UpperCase[i] = c
    THEN LowerCase[CHOOSE i \in DOMAIN UpperCase : UpperCase[i] = c]
    ELSE c

\* str.lower()
Lower(s) == [ i \in DOMAIN s |-> LowerChar(s[i]) ]

\* s[:n] of Python, n of either sign
Take(s, n) ==
    IF n >= 0 THEN SubSeq(s, 1, IF n < Len(s) THEN n ELSE Len(s))
    ELSE SubSeq(s, 1, IF Len(s) + n > 0 THEN Len(s) + n ELSE 0)

\* s[n:] of Python, n >= 0
Drop(s, n) == SubSeq(s, n + 1, Len(s))

StartsWith(s, p) == Len(s) >= Len(p) /\ SubSeq(s, 1, Len(p)) = p

\* the number of leading characters of s that satisfy the class test
RECURSIVE LeadingSpaces(_)
LeadingSpaces(s) ==
    IF s # <<>> /\ IsSpace(Head(s)) THEN 1 + LeadingSpaces(Tail(s)) ELSE 0

RECURSIVE TrailingSpaces(_)
TrailingSpaces(s) ==
    IF s # <<>> /\ IsSpace(s[Len(s)])
    THEN 1 + TrailingSpaces(SubSeq(s, 1, Len(s) - 1)) ELSE 0

\* str.strip()
Strip(s) ==
    LET l == LeadingSpaces(s)
        t == Drop(s, l)
    IN  SubSeq(t, 1, Len(t) - TrailingSpaces(t))

\* re.sub of a quote character at the start (^) or at the end ($) by nothing
StripQuotes(s) ==
    LET t == IF s # <<>> /\ IsQuote(Head(s)) THEN Tail(s) ELSE s
    IN  IF t # <<>> /\ IsQuote(t[Len(t)]) THEN SubSeq(t, 1, Len(t) - 1) ELSE t

\* the alternatives of the prefix pattern, in the pattern's order
PrefixPhrases ==
    << <<"f","i","l","e","n","a","m","e",":">>,
       <<"d","e","s","c","r","i","p","t","i","o","n",":">>,
       <<"h","e","r","e"," ","i","s">>,
       <<"t","h","e"," ","f","i","l","e","n","a","m","e"," ","i","s">> >>

\* the prefix pattern never applied
StripPrefix_Off(s) == s

\* re.sub(r'^(filename:|description:|here is|the filename is)\s*', '', text,
\*        flags=re.IGNORECASE)
StripPrefix(s) ==
    LET ls == Lower(s)
        hits == { i \in DOMAIN PrefixPhrases : StartsWith(ls, PrefixPhrases[i]) }
    IN  IF hits = {} THEN s
        ELSE LET i == CHOOSE j \in hits : \A k \in hits : j <= k
                 t == Drop(s, Len(PrefixPhrases[i]))
             IN  Drop(t, LeadingSpaces(t))

\* re.sub(r'[\s_]+', '-', text)
RECURSIVE HyphenateGaps(_)
HyphenateGaps(s) ==
    IF s = <<>> THEN <<>>
    ELSE IF IsSpace(Head(s)) \/ Head(s) = "_"
         THEN IF Len(s) > 1 /\ (IsSpace(s[2]) \/ s[2] = "_")
              THEN HyphenateGaps(Tail(s))
              ELSE <<"-">> \o HyphenateGaps(Tail(s))
         ELSE <<Head(s)>> \o HyphenateGaps(Tail(s))

\* re.sub(r'[^a-z0-9-]', '', text)
KeepAlnumHyphen(s) == SelectSeq(s, LAMBDA c : IsLower(c) \/ IsDigit(c) \/ c = "-")

\* re.sub(r'-+', '-', text)
RECURSIVE CollapseHyphens(_)
CollapseHyphens(s) ==
    IF s = <<>> THEN <<>>
    ELSE IF Head(s) = "-" /\ Len(s) > 1 /\ s[2] = "-"
         THEN CollapseHyphens(Tail(s))
         ELSE <<Head(s)>> \o CollapseHyphens(Tail(s))

\* text.strip('-')
RECURSIVE StripHyphens(_)
StripHyphens(s) ==
    IF s # <<>> /\ Head(s) = "-" THEN StripHyphens(Tail(s))
    ELSE IF s # <<>> /\ s[Len(s)] = "-" THEN StripHyphens(SubSeq(s, 1, Len(s) - 1))
    ELSE s

\* s.split('-', 1)[0]: the cut at the first hyphen, not the last
RSplit_AtFirstHyphen(s) ==
    LET hy == { i \in DOMAIN s : s[i] = "-" }
    IN  IF hy = {} THEN s
        ELSE SubSeq(s, 1, (CHOOSE i \in hy : \A j \in hy : i <= j) - 1)

\* s.rsplit('-', 1)[0]
RSplitHyphenFirst(s) ==
    LET hy == { i \in DOMAIN s : s[i] = "-" }
    IN  IF hy = {} THEN s
        ELSE SubSeq(s, 1, (CHOOSE i \in hy : \A j \in hy : j <= i) - 1)

FallbackStem == <<"s","c","r","e","e","n","s","h","o","t">>

DefaultMaxLength == 60

\* sanitize_filename up to and including text.strip('-'): the cleaned stem
CleanStem(text) ==
    StripHyphens(CollapseHyphens(KeepAlnumHyphen(HyphenateGaps(
        StripPrefix(StripQuotes(Strip(Lower(text))))))))

\* the truncation step left out
Truncate_Off(text, max_length) == text

\* the truncation step of sanitize_filename
Truncate(text, max_length) ==
    IF Len(text) > max_length
    THEN RSplitHyphenFirst(Take(text, max_length))
    ELSE text

sanitize_filename(text, max_length) ==
    LET t == Truncate(CleanStem(text), max_length)
    IN  IF t = <<>> THEN FallbackStem ELSE t

-----------------------------------------------------------------------------
(* The sanitizer on its own: SpecSan draws a text and a maximum length and *)
(* applies sanitize_filename to them.                                      *)

MaxTokens == 4
MaxMaxLength == 5

\* the pieces the drawn texts are made of
Tokens ==
    { <<"a","b">>, <<"C">>, <<"x","-","y">>, <<" ">>, <<"_">>, <<"-">>,
      <<"!">>, <<"\"">> }

RECURSIVE Flatten(_)
Flatten(ts) == IF ts = <<>> THEN <<>> ELSE Head(ts) \o Flatten(Tail(ts))

TokenTexts ==
    { Flatten(ts) : ts \in UNION { [1..n -> Tokens] : n \in 0..MaxTokens } }

\* "  Here is the filename is: \"Slack DM_with John!!\"  "
SlackText ==
    <<" "," ","H","e","r","e"," ","i","s"," ","t","h","e"," ","f","i","l","e",
      "n","a","m","e"," ","i","s",":"," ","\"","S","l","a","c","k"," ","D","M",
      "_","w","i","t","h"," ","J","o","h","n","!","!","\""," "," ">>

\* answers of the kind the prompt of the code draws from a model
SampleTexts ==
    { SlackText,
      <<"F","i","l","e","n","a","m","e",":"," ","g","i","t","_","l","o","g">>,
      <<"D","E","S","C","R","I","P","T","I","O","N",":","\t","a"," ","b">>,
      <<"t","h","e"," ","f","i","l","e","n","a","m","e"," ","i","s"," ","x","1">>,
      <<"h","e","r","e"," ","i","s","\n","p","y","-","a","p","i">>,
      <<Backtick,"p","y","t","h","o","n","-","a","p","i",Backtick,"\n">>,
      <<"'","q","3"," ","-","-"," ","s","a","l","e","s","'">> }

NoSan == [text |-> <<>>, max_length |-> 0, pc |-> "off", out |-> <<>>]
NoUq == [base |-> <<>>, counter |-> 0, pc |-> "off", out |-> <<>>]
NoPath == <<>>
NoCall == [path |-> NoPath, dry |-> FALSE, raised |-> FALSE, desc |-> <<>>,
           clean |-> <<>>, date |-> <<>>, target |-> NoPath, attempted |-> FALSE,
           oserror |-> FALSE, ret |-> FALSE]

\* the variables a specification does not use keep these values
RestIdle(except) ==
    /\ "san" \in except \/ san = NoSan
    /\ "uq" \in except \/ uq = NoUq
    /\ "fs" \in except \/ fs = {}
    /\ tags = {}
    /\ run = "idle"
    /\ processed = {}
    /\ pending = NoPath
    /\ todo = {}
    /\ dry_run = FALSE
    /\ calls = <<>>
    /\ renamedTo = {}
    /\ last = NoCall
    /\ ncalls = 0
    /\ nenv = 0
    /\ log = "none"

SanInit ==
    /\ san \in [text : TokenTexts \cup SampleTexts,
                max_length : (0..MaxMaxLength) \cup {DefaultMaxLength},
                pc : {"ready"}, out : {<<>>}]
    /\ RestIdle({"san"})

\* one call of sanitize_filename
Sanitize ==
    /\ san.pc = "ready"
    /\ san' = [san EXCEPT !.pc = "done",
                          !.out = sanitize_filename(san.text, san.max_length)]
    /\ UNCHANGED <<uq, fs, tags, run, processed, pending, todo, dry_run, calls,
                   renamedTo, last, ncalls, nenv, log>>

SanNext == Sanitize

SpecSan == SanInit /\ [][SanNext]_vars

\* ^[a-z0-9]+(-[a-z0-9]+)*$
IsValidStem(s) ==
    /\ s # <<>>
    /\ \A i \in DOMAIN s : IsLower(s[i]) \/ IsDigit(s[i]) \/ s[i] = "-"
    /\ s[1] # "-" /\ s[Len(s)] # "-"
    /\ \A i \in 1..(Len(s) - 1) : ~(s[i] = "-" /\ s[i + 1] = "-")

SanDone == san.pc = "done"

\* C4 as claimed: the stem is valid or the fallback, at most max_length long, not empty
C4_AsClaimed ==
    SanDone =>
        /\ IsValidStem(san.out) \/ san.out = FallbackStem
        /\ Len(san.out) <= san.max_length
        /\ san.out # <<>>

\* C4 (amended): for every text and every maximum length >= 0 the result is
\* never empty and matches ^[a-z0-9]+(-[a-z0-9]+)*$ (the fallback literal
\* "screenshot" does too), and it is at most max_length long unless it is the
\* fallback literal, which is returned at its full length of 10 whatever
\* max_length is.
C4_ValidStem ==
    SanDone =>
        /\ IsValidStem(san.out) \/ san.out = FallbackStem
        /\ san.out # <<>>
        /\ Len(san.out) <= san.max_length \/ san.out = FallbackStem

\* C4's case: a text whose cleaned stem was cut down to the maximum length
C4_Witness ==
    /\ SanDone
    /\ Len(CleanStem(san.text)) > san.max_length
    /\ san.out # FallbackStem
    /\ Len(san.out) = san.max_length

SlackStem ==
    <<"s","l","a","c","k","-","d","m","-","w","i","t","h","-","j","o","h","n">>

\* C5 as claimed: the example text yields slack-dm-with-john
C5_AsClaimed ==
    (SanDone /\ san.text = SlackText /\ san.max_length = DefaultMaxLength)
        => san.out = SlackStem

\* C5 (amended): with the default maximum length the example text yields
\* the-filename-is-slack-dm-with-john: the trailing quote character and the one
\* boilerplate phrase at the very start ("here is") are stripped; the second
\* phrase ("the filename is") and the quote before "Slack" are not at the
\* start and stay, the phrase as words of the stem.
C5_SlackExample ==
    (SanDone /\ san.text = SlackText /\ san.max_length = DefaultMaxLength)
        => san.out = <<"t","h","e","-","f","i","l","e","n","a","m","e","-",
                       "i","s","-">> \o SlackStem

C5_Witness ==
    /\ SanDone /\ san.text = SlackText /\ san.max_length = DefaultMaxLength
    /\ Len(san.out) = 34

\* the lengths of the prefixes of the stem c that end at a segment boundary
WholePrefixLengths(c) ==
    { n \in 0..Len(c) : n = 0 \/ n = Len(c) \/ c[n + 1] = "-" }

\* the longest prefix of c made of whole segments and at most n characters long
LongestWholePrefix(c, n) ==
    LET fit == { k \in WholePrefixLengths(c) : k <= n }
    IN  SubSeq(c, 1, CHOOSE k \in fit : \A j \in fit : j <= k)

OrFallback(t) == IF t = <<>> THEN FallbackStem ELSE t

HasHyphen(s) == \E i \in DOMAIN s : s[i] = "-"

\* C6 as claimed: a stem longer than max_length is cut to its longest prefix of
\* whole segments that has at most max_length characters
C6_AsClaimed ==
    (SanDone /\ Len(CleanStem(san.text)) > san.max_length)
        => san.out = OrFallback(LongestWholePrefix(CleanStem(san.text), san.max_length))

\* C6 (amended): a cleaned stem longer than max_length is cut at the last
\* hyphen among its first max_length characters: the result is the longest
\* prefix of whole segments that has fewer than max_length characters (so a
\* segment that ends exactly at max_length is dropped too); when those
\* characters hold no hyphen the result is the first max_length characters,
\* which splits the first word; an empty result becomes the fallback literal.
C6_CutAtLastHyphen ==
    (SanDone /\ Len(CleanStem(san.text)) > san.max_length)
        => LET c == CleanStem(san.text)
               head == SubSeq(c, 1, san.max_length)
           IN  san.out = OrFallback(IF HasHyphen(head)
                                    THEN LongestWholePrefix(c, san.max_length - 1)
                                    ELSE head)

\* C6's case: a cut that removed a trailing partial segment of a longer stem
C6_Witness ==
    /\ SanDone
    /\ Len(CleanStem(san.text)) > san.max_length
    /\ HasHyphen(SubSeq(CleanStem(san.text), 1, san.max_length))
    /\ HasHyphen(san.out)
    /\ Len(san.out) < san.max_length - 1

-----------------------------------------------------------------------------
(* Paths.  Every path of the model lies in the one watched folder, so a    *)
(* path is its final component and "parent / name" is the name.            *)

\* the position of the last "." of a name that starts a suffix, or 0:
\* pathlib takes a suffix only from a dot that is neither first nor last
SuffixDot(name) ==
    LET dots == { i \in DOMAIN name : name[i] = "." }
        d == IF dots = {} THEN 0 ELSE CHOOSE i \in dots : \A j \in dots : j <= i
    IN  IF 1 < d /\ d < Len(name) THEN d ELSE 0

\* Path.suffix
Suffix(name) ==
    IF SuffixDot(name) = 0 THEN <<>> ELSE SubSeq(name, SuffixDot(name), Len(name))

\* Path.stem
Stem(name) ==
    IF SuffixDot(name) = 0 THEN name ELSE SubSeq(name, 1, SuffixDot(name) - 1)

\* str(n) for n >= 0, as the f-strings and strftime write a number
RECURSIVE Digits(_)
Digits(n) ==
    IF n < 10 THEN <<DigitChars[n + 1]>>
    ELSE Digits(n \div 10) \o <<DigitChars[(n % 10) + 1]>>

\* f"{base_path}-{counter}": the counter put after the suffix
NumberedPath_AfterSuffix(base_path, counter) ==
    base_path \o <<"-">> \o Digits(counter)

\* parent / f"{stem}-{counter}{suffix}"
NumberedPath(base_path, counter) ==
    Stem(base_path) \o <<"-">> \o Digits(counter) \o Suffix(base_path)

\* the while loop of get_unique_path, from the given counter on
RECURSIVE UniqueFrom(_, _, _)
UniqueFrom(dir, base_path, counter) ==
    IF NumberedPath(base_path, counter) \notin dir
    THEN NumberedPath(base_path, counter)
    ELSE UniqueFrom(dir, base_path, counter + 1)

\* the candidate returned without a look at the folder
get_unique_path_AsIs(dir, base_path) == base_path

\* get_unique_path against the directory listing dir (a set of names)
get_unique_path(dir, base_path) ==
    IF base_path \notin dir THEN base_path ELSE UniqueFrom(dir, base_path, 1)

-----------------------------------------------------------------------------
(* The resolver on its own, one loop iteration per step: SpecUniq draws a  *)
(* directory and a candidate path and runs get_unique_path on them.        *)

MaxVariants == 3
MaxRunLength == 11

UqBases ==
    { <<"a",".","p","n","g">>, <<"b">>, <<"c",".","d",".","g","i","f">>,
      <<".","r","c">> }

\* the directories drawn for a candidate: any choice among the candidate, its
\* first numbered variants and an unrelated file, and the candidate with an
\* unbroken run of numbered variants
UqDirectories(base) ==
    SUBSET ({base, <<"z",".","p","n","g">>}
            \cup { NumberedPath(base, k) : k \in 1..MaxVariants })
    \cup { {base} \cup { NumberedPath(base, k) : k \in 1..n } : n \in 0..MaxRunLength }

UqInit ==
    /\ \E base \in UqBases : \E dir \in UqDirectories(base) :
          /\ uq = [base |-> base, counter |-> 0, pc |-> "start", out |-> NoPath]
          /\ fs = dir
    /\ RestIdle({"uq", "fs"})

UqRest == <<san, fs, tags, run, processed, pending, todo, dry_run, calls,
            renamedTo, last, ncalls, nenv, log>>

\* get_unique_path up to the loop: the test of base_path itself
UqEnter ==
    /\ uq.pc = "start"
    /\ IF uq.base \notin fs
       THEN uq' = [uq EXCEPT !.pc = "done", !.out = uq.base]
       ELSE uq' = [uq EXCEPT !.pc = "loop", !.counter = 1]
    /\ UNCHANGED UqRest

\* one iteration of the while loop
UqIterate ==
    /\ uq.pc = "loop"
    /\ IF NumberedPath(uq.base, uq.counter) \notin fs
       THEN uq' = [uq EXCEPT !.pc = "done", !.out = NumberedPath(uq.base, uq.counter)]
       ELSE uq' = [uq EXCEPT !.counter = uq.counter + 1]
    /\ UNCHANGED UqRest

UqNext == UqEnter \/ UqIterate

\* the call runs on: nothing in the loop waits
SpecUniq == UqInit /\ [][UqNext]_vars /\ WF_vars(UqNext)

UqDone == uq.pc = "done"

\* C7: get_unique_path returns the candidate when no file has its name, and
\* otherwise stem-k-suffix for the least k >= 1 that names no file; the call
\* ends, with a path that names no file (the looping and the recursive
\* rendering of the code agree on it).
C7_UniquePath ==
    /\ [](UqDone =>
            /\ uq.out \notin fs
            /\ uq.base \notin fs => uq.out = uq.base
            /\ uq.base \in fs =>
                 \E k \in 1..(Cardinality(fs) + 1) :
                    /\ uq.out = Stem(uq.base) \o <<"-">> \o Digits(k) \o Suffix(uq.base)
                    /\ \A j \in 1..(k - 1) :
                         Stem(uq.base) \o <<"-">> \o Digits(j) \o Suffix(uq.base)
                             \in fs
            /\ uq.out = get_unique_path(fs, uq.base))
    /\ <>UqDone

\* C7's case: the candidate and its -1 variant exist and the -2 variant is returned
C7_Witness ==
    /\ UqDone
    /\ <<"a",".","p","n","g">> \in fs
    /\ <<"a","-","1",".","p","n","g">> \in fs
    /\ uq.base = <<"a",".","p","n","g">>
    /\ uq.out = <<"a","-","2",".","p","n","g">>

-----------------------------------------------------------------------------
(* The rename pipeline                                                     *)

IMAGE_EXTENSIONS ==
    { <<".","p","n","g">>, <<".","j","p","g">>, <<".","j","p","e","g">>,
      <<".","w","e","b","p">>, <<".","g","i","f">>, <<".","b","m","p">> }

\* re.match(r'^\d{2}-\d{2}-\d{4}_', name): the day-first pattern
DatePrefixed_DayFirst(name) ==
    /\ Len(name) >= 11
    /\ \A i \in {1, 2, 4, 5, 7, 8, 9, 10} : IsDigit(name[i])
    /\ name[3] = "-" /\ name[6] = "-" /\ name[11] = "_"

\* re.match(r'^\d{4}-\d{2}-\d{2}_', name)
DatePrefixed(name) ==
    /\ Len(name) >= 11
    /\ \A i \in {1, 2, 3, 4, 6, 7, 9, 10} : IsDigit(name[i])
    /\ name[5] = "-" /\ name[8] = "-" /\ name[11] = "_"

\* a number written with at least width digits, zero-filled (%Y, %m, %d)
RECURSIVE ZeroPad(_, _)
ZeroPad(n, width) ==
    IF Len(Digits(n)) >= width THEN Digits(n)
    ELSE <<"0">> \o ZeroPad(n, width - 1)

\* datetime.strftime('%Y-%m-%d')
strftime(now) ==
    ZeroPad(now.year, 4) \o <<"-">> \o ZeroPad(now.month, 2) \o <<"-">>
        \o ZeroPad(now.day, 2)

\* dict-like update of a function
Put(f, k, v) == [ x \in DOMAIN f \cup {k} |-> IF x = k THEN v ELSE f[x] ]

\* Path.rename (os.rename): the entry src becomes dst, replacing what dst named
Rename(dir, src, dst) == (dir \ {src}) \cup {dst}

\* analyze_image: the model's answer, or "" when anything raised; reading a
\* file that does not exist raises
analyze_image(exists, raises, content) ==
    IF ~exists \/ raises THEN <<>> ELSE content

\* f"{date_str}_{clean_name}{file_path.suffix.lower()}"
NewName(date_str, clean_name, file_path) ==
    date_str \o <<"_">> \o clean_name \o Lower(Suffix(file_path))

\* the rename done without the test of the description
FolderAfter_NoEmptyCheck(dir, file_path, new_path, description, dry, rename_ok) ==
    IF dry \/ ~rename_ok THEN dir
    ELSE Rename(dir, file_path, new_path)

\* the rename done without the dry_run return
FolderAfter_NoDryRun(dir, file_path, new_path, description, dry, rename_ok) ==
    IF description = <<>> \/ ~rename_ok THEN dir
    ELSE Rename(dir, file_path, new_path)

\* the folder after rename_screenshot: renamed only past the dry_run return
\* and when the rename raised no OSError
FolderAfter(dir, file_path, new_path, description, dry, rename_ok) ==
    IF description = <<>> \/ dry \/ ~rename_ok THEN dir
    ELSE Rename(dir, file_path, new_path)

\* set_finder_comment, called after a successful rename only; the write is
\* best effort (comment_ok)
TagsAfter(tg, file_path, new_path, description, dry, rename_ok, comment_ok) ==
    IF description = <<>> \/ dry \/ ~rename_ok THEN tg
    ELSE IF comment_ok THEN (tg \ {file_path}) \cup {new_path}
    ELSE IF file_path \in tg THEN (tg \ {file_path}) \cup {new_path}
    ELSE tg

\* the value rename_screenshot returns
ReturnValue(description, dry, rename_ok) ==
    IF description = <<>> THEN FALSE
    ELSE IF dry THEN TRUE
    ELSE rename_ok

\* the last line rename_screenshot prints
PipelineLog(description, dry, rename_ok) ==
    IF description = <<>> THEN "Skipping: Could not analyze image"
    ELSE IF dry THEN "Would rename to"
    ELSE IF rename_ok THEN "Renamed to" ELSE "Error renaming"

\* rename_screenshot(client, file_path, model, dry): one call, whole.  Its
\* inputs: whether the inference raised, the answer it gave otherwise, the
\* clock, whether the rename and the comment write went through.
rename_screenshot(file_path, dry, raises, content, now, rename_ok, comment_ok) ==
    LET description == analyze_image(file_path \in fs, raises, content)
        clean_name == sanitize_filename(description, DefaultMaxLength)
        date_str == strftime(now)
        new_path == get_unique_path(fs, NewName(date_str, clean_name, file_path))
        ret == ReturnValue(description, dry, rename_ok)
    IN  /\ fs' = FolderAfter(fs, file_path, new_path, description, dry, rename_ok)
        /\ tags' = TagsAfter(tags, file_path, new_path, description, dry, rename_ok, comment_ok)
        /\ log' = PipelineLog(description, dry, rename_ok)
        /\ last' = [path |-> file_path, dry |-> dry,
                    raised |-> (file_path \notin fs \/ raises),
                    desc |-> description,
                    clean |-> IF description = <<>> THEN <<>> ELSE clean_name,
                    date |-> IF description = <<>> THEN <<>> ELSE date_str,
                    target |-> IF description = <<>> THEN NoPath ELSE new_path,
                    attempted |-> (description # <<>> /\ ~dry),
                    oserror |-> (description # <<>> /\ ~dry /\ ~rename_ok),
                    ret |-> ret]
        /\ ncalls' = ncalls + 1
        /\ renamedTo' = IF ret /\ ~dry THEN renamedTo \cup {new_path} ELSE renamedTo

-----------------------------------------------------------------------------
(* The watcher's handler, the batch driver and the other programs that     *)
(* write to the folder                                                     *)

MaxCalls == 2
MaxEnv == 2

\* the names other programs give the images they write: two screenshots and
\* a file that carries a processed name already
EnvNames ==
    { <<"a",".","p","n","g">>, <<"b",".","P","N","G">>,
      <<"2","0","2","4","-","0","1","-","0","1","_","x","-","y",".","p","n","g">> }

\* a file of the folder that is no image
Notes == <<"n",".","t","x","t">>

\* the answers of the inference collaborator: an empty one and a description
Answers == { <<>>, <<"X"," ","y">> }

Clock == { [year |-> 2024, month |-> 1, day |-> 1] }

\* what one call of rename_screenshot meets: an inference that raises gives
\* no answer, and the comment is written only to a file that was renamed
PipelineInputs ==
    { i \in [raises : BOOLEAN, content : Answers, now : Clock,
             rename_ok : BOOLEAN, comment_ok : BOOLEAN] :
        /\ i.raises => i.content = <<>>
        /\ i.comment_ok => i.rename_ok }

\* process_existing's filter; every entry of the folder is a regular file
Listing(dir) ==
    { f \in dir :
        /\ Lower(Suffix(f)) \in IMAGE_EXTENSIONS
        /\ ~DatePrefixed(f) }

\* the processed set never consulted
AlreadyProcessed_Never(file_path, seen) == FALSE

\* handle_file: the test that the path was handled before
AlreadyProcessed(file_path, seen) == file_path \in seen

\* handle_file up to the sleep: is the path taken up?
Selected(file_path, seen) ==
    /\ Lower(Suffix(file_path)) \in IMAGE_EXTENSIONS
    /\ ~AlreadyProcessed(file_path, seen)
    /\ ~DatePrefixed(file_path)

\* the existence test after the sleep left out
FileGone_Never(dir, file_path) == FALSE

\* handle_file after the sleep: not file_path.exists()
FileGone(dir, file_path) == file_path \notin dir

\* no program is running; the folder holds the note alone, or the note, two
\* screenshots and a file with a processed name
Init ==
    /\ san = NoSan
    /\ uq = NoUq
    /\ \E images \in {{}, EnvNames} : fs = images \cup {Notes}
    /\ tags = {}
    /\ run = "idle"
    /\ processed = {}
    /\ pending = NoPath
    /\ todo = {}
    /\ dry_run = FALSE
    /\ calls = <<>>
    /\ renamedTo = {}
    /\ last = NoCall
    /\ ncalls = 0
    /\ nenv = 0
    /\ log = "none"

\* watch_folder: a new ScreenshotHandler, its processed set empty
WatchStart ==
    /\ run = "idle"
    /\ run' = "watch"
    /\ processed' = {}
    /\ calls' = <<>>
    /\ log' = "Watching"
    /\ UNCHANGED <<san, uq, fs, tags, pending, todo, dry_run, renamedTo,
                   last, ncalls, nenv>>

\* KeyboardInterrupt: the observer is stopped and joined, the handler dropped
WatchStop ==
    /\ run = "watch" /\ pending = NoPath
    /\ run' = "idle"
    /\ processed' = {}
    /\ calls' = <<>>
    /\ log' = "Stopping"
    /\ UNCHANGED <<san, uq, fs, tags, pending, todo, dry_run, renamedTo,
                   last, ncalls, nenv>>

\* handle_file up to time.sleep(self.delay)
Detect(file_path) ==
    IF Selected(file_path, processed)
    THEN /\ log' = "Detected"
         /\ processed' = processed \cup {file_path}
         /\ pending' = file_path
    ELSE UNCHANGED <<log, processed, pending>>

on_created(event) ==
    IF event.is_directory THEN UNCHANGED <<log, processed, pending>>
    ELSE Detect(event.src_path)

on_modified(event) ==
    IF event.is_directory THEN UNCHANGED <<log, processed, pending>>
    ELSE Detect(event.src_path)

\* the observer thread hands the handler one event; the handler is not
\* entered again before it has returned
Dispatch ==
    /\ run = "watch" /\ pending = NoPath
    /\ \E src \in EnvNames \cup fs : \E dir \in BOOLEAN :
         \E kind \in {"created", "modified"} :
            LET event == [src_path |-> src, is_directory |-> dir]
            IN  IF kind = "created" THEN on_created(event) ELSE on_modified(event)
    /\ UNCHANGED <<san, uq, fs, tags, run, todo, dry_run, calls, renamedTo,
                   last, ncalls, nenv>>

\* handle_file from the end of the sleep on
Settle ==
    /\ run = "watch" /\ pending # NoPath
    /\ pending' = NoPath
    /\ IF FileGone(fs, pending)
       THEN /\ log' = "File no longer exists, skipping"
            /\ UNCHANGED <<fs, tags, last, ncalls, renamedTo, calls>>
       ELSE /\ ncalls < MaxCalls
            /\ \E i \in PipelineInputs :
                 rename_screenshot(pending, FALSE, i.raises, i.content, i.now,
                                   i.rename_ok, i.comment_ok)
            /\ calls' = Put(calls, pending,
                            IF pending \in DOMAIN calls THEN calls[pending] + 1 ELSE 1)
    /\ UNCHANGED <<san, uq, run, processed, todo, dry_run, nenv>>

\* process_existing up to the loop
BatchStart ==
    /\ run = "idle"
    /\ \E dry \in BOOLEAN :
         /\ dry_run' = dry
         /\ todo' = Listing(fs)
         /\ IF Listing(fs) = {}
            THEN run' = "idle" /\ log' = "No unprocessed screenshots found."
            ELSE run' = "batch" /\ log' = "Found screenshot(s) to process"
    /\ UNCHANGED <<san, uq, fs, tags, processed, pending, calls, renamedTo,
                   last, ncalls, nenv>>

\* one iteration of process_existing's loop; iterdir fixes no order, so the
\* next image is any of those left
BatchStep ==
    /\ run = "batch" /\ todo # {}
    /\ ncalls < MaxCalls
    /\ \E img \in todo :
         /\ \E i \in PipelineInputs :
              rename_screenshot(img, dry_run, i.raises, i.content, i.now,
                                i.rename_ok, i.comment_ok)
         /\ todo' = todo \ {img}
         /\ run' = IF todo = {img} THEN "idle" ELSE "batch"
    /\ UNCHANGED <<san, uq, processed, pending, dry_run, calls, nenv>>

\* another program writes a file into the folder
EnvCreate ==
    /\ nenv < MaxEnv
    /\ \E name \in EnvNames \ fs : fs' = fs \cup {name}
    /\ nenv' = nenv + 1
    /\ UNCHANGED <<san, uq, tags, run, processed, pending, todo, dry_run, calls,
                   renamedTo, last, ncalls, log>>

\* another program (or the user) removes a file from the folder
EnvDelete ==
    /\ nenv < MaxEnv
    /\ \E name \in fs \ {Notes} :
         /\ fs' = fs \ {name}
         /\ tags' = tags \ {name}
    /\ nenv' = nenv + 1
    /\ UNCHANGED <<san, uq, run, processed, pending, todo, dry_run, calls,
                   renamedTo, last, ncalls, log>>

Next ==
    \/ WatchStart \/ WatchStop \/ Dispatch \/ Settle
    \/ BatchStart \/ BatchStep
    \/ EnvCreate \/ EnvDelete

Spec == Init /\ [][Next]_vars

-----------------------------------------------------------------------------
(* The claims about the watcher, the batch driver and the pipeline          *)

\* a rename_screenshot call was made in this step
Called == ncalls' = ncalls + 1

\* the name starts with four digits, "-", two digits, "-", two digits, "_"
BeginsWithDate(name) ==
    /\ Len(name) > 10
    /\ SubSeq(name, 5, 5) = <<"-">> /\ SubSeq(name, 8, 8) = <<"-">>
    /\ SubSeq(name, 11, 11) = <<"_">>
    /\ Range(SubSeq(name, 1, 4) \o SubSeq(name, 6, 7) \o SubSeq(name, 9, 10))
          \subseteq Range(DigitChars)

\* C1: within one watch session rename_screenshot is called at most once per
\* path: a path is in the processed set from its detection on (while the
\* handler sleeps and when the pipeline runs), no path leaves the set while
\* the session lasts, and a path that is in the set is never taken up again,
\* whatever became of its first handling.
C1_OncePerPath ==
    /\ [](/\ \A p \in DOMAIN calls : calls[p] <= 1 /\ p \in processed
          /\ pending # NoPath => pending \in processed /\ pending \notin DOMAIN calls)
    /\ [][(run = "watch" /\ run' = "watch") => processed \subseteq processed']_vars
    /\ [][(pending = NoPath /\ pending' # NoPath) => pending' \notin processed]_vars
    /\ [][(Called /\ run = "watch") =>
             (last'.path = pending /\ pending \notin DOMAIN calls)]_vars

\* C1's case: a path whose first handling was abandoned exists again under
\* the same name, in the same session, and is not taken up
C1_Witness ==
    /\ run = "watch" /\ pending = NoPath
    /\ log = "File no longer exists, skipping"
    /\ \E p \in processed : p \in fs /\ p \notin DOMAIN calls

\* C2: when the handler wakes from the delay and the file is gone, the path
\* is dropped: no pipeline call, the handler returns as usual, the folder and
\* the comments are as they were; when the file is there, the pipeline is
\* called once, for that path.
C2_GoneAfterDelay ==
    [][(pending # NoPath /\ pending' = NoPath) =>
         IF pending \notin fs
         THEN /\ ncalls' = ncalls /\ last' = last
              /\ fs' = fs /\ tags' = tags
              /\ run' = "watch" /\ processed' = processed
         ELSE /\ Called /\ last'.path = pending]_vars

\* C2's case: a path was dropped because its file was gone after the delay
C2_Witness ==
    /\ log = "File no longer exists, skipping"
    /\ pending = NoPath
    /\ \E p \in processed : p \notin fs /\ p \notin DOMAIN calls

\* C3: no name that begins with YYYY-MM-DD_ is taken up by the watcher or
\* listed by the batch driver, every name the pipeline gives a file begins so,
\* and so the pipeline is never called for a name that begins so nor for a
\* path a file was renamed to.
C3_ProcessedNameSkipped ==
    /\ [](/\ \A n \in fs \cup EnvNames : BeginsWithDate(n) =>
                /\ n \notin Listing(fs)
                /\ n \notin todo
                /\ n \notin processed
                /\ n # pending
          /\ \A t \in renamedTo : BeginsWithDate(t))
    /\ [][Called => (~BeginsWithDate(last'.path) /\ last'.path \notin renamedTo)]_vars

\* C3's case: a batch run that follows a rename finds nothing to process
\* though the renamed file is in the folder
C3_Witness ==
    /\ log = "No unprocessed screenshots found."
    /\ \E t \in renamedTo : t \in fs

\* C8: when the inference raises or gives an empty description, or when the
\* rename raises, rename_screenshot returns false and the folder and the
\* comments are as before: the file is at its path under its name, which the
\* batch driver still lists; after a failed or empty inference no rename is
\* tried.
C8_FailureLeavesFile ==
    [][(Called /\ (last'.raised \/ last'.desc = <<>> \/ last'.oserror)) =>
          /\ last'.ret = FALSE
          /\ fs' = fs /\ tags' = tags
          /\ last'.path \in fs =>
                (last'.path \in fs' /\ last'.path \in Listing(fs')
                    /\ ~BeginsWithDate(last'.path))
          /\ (last'.raised \/ last'.desc = <<>>) => ~last'.attempted]_vars

\* C8's case: a rename that raised left the file where it was
C8_Witness ==
    /\ ncalls > 0 /\ last.oserror /\ ~last.ret
    /\ last.path \in fs /\ last.target \notin fs

\* C9: a rename_screenshot call with dry_run true leaves the folder and the
\* comments as they are, and with a description in hand it reports the target
\* (a name that is free, carries the date prefix and the lowercased extension)
\* and returns true; every call of a batch run started with dry_run is such a
\* call.
C9_DryRunFrame ==
    /\ [][(Called /\ last'.dry) =>
             /\ fs' = fs /\ tags' = tags /\ renamedTo' = renamedTo
             /\ ~last'.attempted
             /\ last'.desc # <<>> =>
                  /\ last'.ret = TRUE
                  /\ log' = "Would rename to"
                  /\ last'.target \notin fs
                  /\ BeginsWithDate(last'.target)
                  /\ Suffix(last'.target) = Lower(Suffix(last'.path))]_vars
    /\ [][(Called /\ run = "batch") => last'.dry = dry_run]_vars

\* C9's case: a dry run reported a numbered target and touched nothing
C9_Witness ==
    /\ ncalls > 0 /\ last.dry /\ last.ret
    /\ log = "Would rename to"
    /\ last.path \in fs /\ last.target \notin fs
    /\ last.target # last.date \o <<"_">> \o last.clean \o Lower(Suffix(last.path))

\* C10: a call that returns true outside a dry run renames its file, and
\* nothing else, to date_stem.ext with the extension lowercased, or to the
\* first free numbered variant -k of that name when it is taken; the old path
\* is gone, the target was free; and no call of the pipeline, whatever its
\* outcome, changes the number of files in the folder.
C10_RenameOnce ==
    /\ [][(Called /\ last'.ret /\ ~last'.dry) =>
             LET p == last'.path
                 t == last'.target
                 cand == last'.date \o <<"_">> \o last'.clean \o Lower(Suffix(p))
             IN  /\ p \in fs /\ p \notin fs'
                 /\ t \notin fs /\ t \in fs'
                 /\ fs' \ {t} = fs \ {p}
                 /\ BeginsWithDate(cand) /\ Len(last'.date) = 10
                 /\ IsValidStem(last'.clean)
                 /\ Suffix(cand) \in IMAGE_EXTENSIONS
                 /\ cand \notin fs => t = cand
                 /\ cand \in fs =>
                      \E k \in 1..Cardinality(fs) :
                         /\ t = Stem(cand) \o <<"-">> \o Digits(k) \o Suffix(cand)
                         /\ \A j \in 1..(k - 1) :
                              Stem(cand) \o <<"-">> \o Digits(j) \o Suffix(cand) \in fs]_vars
    /\ [][Called => Cardinality(fs') = Cardinality(fs)]_vars

\* C10's case: the third file with one description on one date became the
\* -2 variant, beside the plain name and the -1 variant
C10_Witness ==
    /\ ncalls > 0 /\ last.ret /\ ~last.dry
    /\ last.target = Stem(last.date \o <<"_">> \o last.clean \o <<".","p","n","g">>)
                        \o <<"-","2",".","p","n","g">>
    /\ { last.date \o <<"_">> \o last.clean \o <<".","p","n","g">>,
         last.date \o <<"_">> \o last.clean \o <<"-","1",".","p","n","g">>,
         last.target } \subseteq fs
    /\ last.path \notin fs

====
